---- MODULE Spec2Model ----
(***************************************************************************)
(* base16ct: the generic Base16 decode engine (decode_inner), the length   *)
(* utilities (decoded_len, encoded_len) and the error type of              *)
(* src/base16ct/src/lib.rs.  A call of decode_inner is a small process:    *)
(* the length check and narrowing of dst, one step per pair of source      *)
(* characters, and the final match on the error accumulator.  Several      *)
(* calls may run at once on one shared source and their own destinations.  *)
(* The per-variant nibble codecs (modules lower, upper, mixed) are not in  *)
(* lib.rs; they are modelled from their contract.                          *)
(***************************************************************************)
EXTENDS Integers, Sequences, FiniteSets, TLC

VARIABLES
    src,      \* the encoded input, a sequence of bytes shared by all calls
    nib,      \* nib[p]: the decode_nibble function passed to call p
    dst,      \* dst[p]: the caller's whole destination buffer of call p
    dst0,     \* dst0[p]: that buffer as it was when the call was made
    pc,       \* pc[p]: "call" | "loop" | "ret"
    dlen,     \* dlen[p]: what decoded_len(src) returned to call p
    view,     \* view[p]: the narrowed dst slice, [off, len] inside dst[p]
    it,       \* it[p]: number of (chunk, dst byte) pairs the zip has yielded
    err,      \* err[p]: the u16 error accumulator
    result,   \* result[p]: [tag, off, len], the Result returned
    applied,  \* applied[p]: source positions decode_nibble was applied to
    written   \* written[p]: positions of dst[p] that were assigned

vars == <<src, nib, dst, dst0, pc, dlen, view, it, err, result, applied, written>>

----------------------------------------------------------------------------
(* Bounds of the model *)

MaxSrcLen == 4
MaxCap == 3
MaxConcLen == 4
MaxConcCap == 2

----------------------------------------------------------------------------
(* Machine arithmetic *)

Min(a, b) == IF a < b THEN a ELSE b

RECURSIVE BitOr(_, _)
BitOr(a, b) ==
    IF a = 0 THEN b
    ELSE IF b = 0 THEN a
    ELSE (IF a % 2 = 1 \/ b % 2 = 1 THEN 1 ELSE 0) + 2 * BitOr(a \div 2, b \div 2)

RECURSIVE BitAnd(_, _)
BitAnd(a, b) ==
    IF a = 0 \/ b = 0 THEN 0
    ELSE (IF a % 2 = 1 /\ b % 2 = 1 THEN 1 ELSE 0) + 2 * BitAnd(a \div 2, b \div 2)

\* x << k on u16: the bits shifted past bit 15 are lost
Shl16(x, k) == (x * (2 ^ k)) % 65536

\* x >> k on u16
Shr16(x, k) == x \div (2 ^ k)

\* x as u8
AsU8(x) == x % 256

----------------------------------------------------------------------------
(* Error type and results *)

Error == {"InvalidEncoding", "InvalidLength"}

Ok(v) == [tag |-> "Ok", val |-> v]
Err(e) == [tag |-> e, val |-> 0]

----------------------------------------------------------------------------
(* Length utilities *)

decoded_len_no_parity_check(bytes) == Ok(Len(bytes) \div 2)

decoded_len(bytes) ==
    IF BitAnd(Len(bytes), 1) = 0
    THEN Ok(Len(bytes) \div 2)
    ELSE Err("InvalidLength")

encoded_len(bytes) == Len(bytes) * 2

----------------------------------------------------------------------------
(* Slices *)

\* dst.get_mut(..n): the first n bytes, or None when n > dst.len()
get_mut_to_clamped(buf, n) == [some |-> TRUE, off |-> 0, len |-> Min(n, Len(buf))]

get_mut_to_strict(buf, n) ==
    IF n < Len(buf)
    THEN [some |-> TRUE, off |-> 0, len |-> n]
    ELSE [some |-> FALSE, off |-> 0, len |-> 0]

get_mut_to_tail(buf, n) ==
    IF n <= Len(buf)
    THEN [some |-> TRUE, off |-> Len(buf) - n, len |-> n]
    ELSE [some |-> FALSE, off |-> 0, len |-> 0]

get_mut_to(buf, n) ==
    IF n <= Len(buf)
    THEN [some |-> TRUE, off |-> 0, len |-> n]
    ELSE [some |-> FALSE, off |-> 0, len |-> 0]

\* src.chunks_exact(2): the number of whole chunks
chunks_exact_2(bytes) == Len(bytes) \div 2

\* the bytes of buf a slice [off, len] covers
SliceOf(buf, off, len) == [k \in 1..len |-> buf[off + k]]

----------------------------------------------------------------------------
(* Per-variant nibble codecs (modules lower, upper, mixed) *)

Variants == {"lower", "upper", "mixed"}

IsDigit(c) == c >= 48 /\ c <= 57
IsLowerAF(c) == c >= 97 /\ c <= 102
IsUpperAF(c) == c >= 65 /\ c <= 70

\* the digits a variant accepts
Accepts(variant, c) ==
    \/ IsDigit(c)
    \/ variant \in {"lower", "mixed"} /\ IsLowerAF(c)
    \/ variant \in {"upper", "mixed"} /\ IsUpperAF(c)

HexVal(c) ==
    IF IsDigit(c) THEN c - 48
    ELSE IF IsLowerAF(c) THEN c - 87
    ELSE c - 55

\* A nibble-decode function f is a variant and the u16 value it returns for
\* a character the variant rejects.
decode_nibble(f, c) ==
    IF Accepts(f.variant, c) THEN HexVal(c) ELSE f.marker

encode_nibble(variant, nibble) ==
    IF nibble < 10 THEN 48 + nibble
    ELSE IF variant = "lower" THEN 87 + nibble
    ELSE 55 + nibble

\* V.encode: two digits per byte, high nibble first
encode(variant, bytes) ==
    [k \in 1..encoded_len(bytes) |->
        LET b == bytes[(k + 1) \div 2] IN
        IF k % 2 = 1
        THEN encode_nibble(variant, b \div 16)
        ELSE encode_nibble(variant, b % 16)]

\* the values returned for a rejected character: error bit 8 alone, error
\* bit 12 alone, the whole high byte, and all sixteen bits (-1 as u16)
Markers == {256, 4096, 65280, 65535}

NibbleFns == [variant : Variants, marker : Markers]

----------------------------------------------------------------------------
(* decode_inner, step by step *)

Calls == DOMAIN pc

NoResult == [tag |-> "none", off |-> 0, len |-> 0]
OkSlice(v) == [tag |-> "Ok", off |-> v.off, len |-> v.len]
Failure(e) == [tag |-> e, off |-> 0, len |-> 0]

pair_byte_swapped(f, hi, lo) ==
    BitOr(Shl16(decode_nibble(f, lo), 4), decode_nibble(f, hi))

pair_byte_no_shift(f, hi, lo) ==
    BitOr(decode_nibble(f, hi), decode_nibble(f, lo))

\* (decode_nibble(src[0]) << 4) | decode_nibble(src[1])
pair_byte(f, hi, lo) ==
    BitOr(Shl16(decode_nibble(f, hi), 4), decode_nibble(f, lo))

acc_err_overwrite(e, byte) == Shr16(byte, 8)

\* err |= byte >> 8
acc_err(e, byte) == BitOr(e, Shr16(byte, 8))

dst_index_strided(v, i) == v.off + 2 * i + 1

\* the position in the caller's buffer of the i-th element of dst.iter_mut()
dst_index(v, i) == v.off + i + 1

zip_has_next_until_error(p) ==
    it[p] < Min(chunks_exact_2(src), view[p].len) /\ err[p] = 0

\* src.chunks_exact(2).zip(dst.iter_mut()) yields another pair
zip_has_next(p) == it[p] < Min(chunks_exact_2(src), view[p].len)

\* let dst = dst.get_mut(..decoded_len(src)?).ok_or(InvalidLength)?; err = 0
decode_inner_call(p) ==
    /\ pc[p] = "call"
    /\ dlen' = [dlen EXCEPT ![p] = decoded_len(src)]
    /\ LET n == decoded_len(src) IN
       IF n.tag # "Ok"
       THEN /\ result' = [result EXCEPT ![p] = Failure(n.tag)]
            /\ pc' = [pc EXCEPT ![p] = "ret"]
            /\ UNCHANGED <<view, err>>
       ELSE LET s == get_mut_to(dst[p], n.val) IN
            IF ~s.some
            THEN /\ result' = [result EXCEPT ![p] = Failure("InvalidLength")]
                 /\ pc' = [pc EXCEPT ![p] = "ret"]
                 /\ UNCHANGED <<view, err>>
            ELSE /\ view' = [view EXCEPT ![p] = [off |-> s.off, len |-> s.len]]
                 /\ err' = [err EXCEPT ![p] = 0]
                 /\ pc' = [pc EXCEPT ![p] = "loop"]
                 /\ UNCHANGED result
    /\ UNCHANGED <<src, nib, dst, dst0, it, applied, written>>

decode_inner_loop_static_err(p) ==
    /\ pc[p] = "loop"
    /\ zip_has_next(p)
    /\ LET byte == pair_byte(nib[p], src[2 * it[p] + 1], src[2 * it[p] + 2])
           k == dst_index(view[p], it[p])
       IN /\ err' = [q \in Calls |-> acc_err(err[q], byte)]
          /\ dst' = [dst EXCEPT ![p][k] = AsU8(byte)]
          /\ written' = [written EXCEPT ![p] = @ \cup {k}]
    /\ applied' = [applied EXCEPT ![p] = @ \cup {2 * it[p] + 1, 2 * it[p] + 2}]
    /\ it' = [it EXCEPT ![p] = @ + 1]
    /\ UNCHANGED <<src, nib, dst0, pc, dlen, view, result>>

\* one iteration of the for loop
decode_inner_loop(p) ==
    /\ pc[p] = "loop"
    /\ zip_has_next(p)
    /\ LET byte == pair_byte(nib[p], src[2 * it[p] + 1], src[2 * it[p] + 2])
           k == dst_index(view[p], it[p])
       IN /\ err' = [err EXCEPT ![p] = acc_err(@, byte)]
          /\ dst' = [dst EXCEPT ![p][k] = AsU8(byte)]
          /\ written' = [written EXCEPT ![p] = @ \cup {k}]
    /\ applied' = [applied EXCEPT ![p] = @ \cup {2 * it[p] + 1, 2 * it[p] + 2}]
    /\ it' = [it EXCEPT ![p] = @ + 1]
    /\ UNCHANGED <<src, nib, dst0, pc, dlen, view, result>>

\* the loop is over: match err { 0 => Ok(dst), _ => Err(InvalidEncoding) }
decode_inner_match(p) ==
    /\ pc[p] = "loop"
    /\ ~zip_has_next(p)
    /\ result' = [result EXCEPT ![p] =
                    IF err[p] = 0 THEN OkSlice(view[p])
                    ELSE Failure("InvalidEncoding")]
    /\ pc' = [pc EXCEPT ![p] = "ret"]
    /\ UNCHANGED <<src, nib, dst, dst0, dlen, view, it, err, applied, written>>

----------------------------------------------------------------------------
(* decode_inner as one function: what a call run on its own computes *)

RECURSIVE loop_after(_, _, _, _, _)
loop_after(s, buf, f, v, k) ==
    IF k = 0 THEN [dst |-> buf, err |-> 0]
    ELSE LET prev == loop_after(s, buf, f, v, k - 1)
             byte == pair_byte(f, s[2 * k - 1], s[2 * k])
         IN [dst |-> [prev.dst EXCEPT ![dst_index(v, k - 1)] = AsU8(byte)],
             err |-> acc_err(prev.err, byte)]

decode_inner(s, buf, f) ==
    LET n == decoded_len(s) IN
    IF n.tag # "Ok" THEN [result |-> Failure(n.tag), dst |-> buf]
    ELSE LET v == get_mut_to(buf, n.val) IN
         IF ~v.some THEN [result |-> Failure("InvalidLength"), dst |-> buf]
         ELSE LET fin == loop_after(s, buf, f, v, Min(chunks_exact_2(s), v.len))
              IN [result |-> IF fin.err = 0 THEN OkSlice(v)
                             ELSE Failure("InvalidEncoding"),
                  dst |-> fin.dst]

----------------------------------------------------------------------------
(* Inputs *)

\* '0', 'a', 'F', 'g': accepted by all variants, by lower and mixed, by
\* upper and mixed, by none
Chars == {48, 97, 70, 103}

\* 'a', 'F'
ConcChars == {97, 70}

SeqsUpTo(S, n) == UNION {[1..k -> S] : k \in 0..n}

\* 0x00, 0x12, 0x34, 0xAB, 0xCD, 0xFF
RawBytes == {0, 18, 52, 171, 205, 255}

RawInputs == SeqsUpTo(RawBytes, MaxSrcLen \div 2)

Sources ==
    SeqsUpTo(Chars, MaxSrcLen)
        \cup {encode(v, b) : v \in {"lower", "upper"}, b \in RawInputs}

ConcSources == SeqsUpTo(ConcChars, MaxConcLen)

\* 0x00, 0xEE
Fills == {0, 238}

InitCalls(calls, sources, fns, maxcap, fills) ==
    /\ src \in sources
    /\ nib \in [calls -> fns]
    /\ \E cap \in [calls -> 0..maxcap], fill \in [calls -> fills] :
          dst = [p \in calls |-> [k \in 1..cap[p] |-> fill[p]]]
    /\ dst0 = dst
    /\ pc = [p \in calls |-> "call"]
    /\ dlen = [p \in calls |-> [tag |-> "none", val |-> 0]]
    /\ view = [p \in calls |-> [off |-> 0, len |-> 0]]
    /\ it = [p \in calls |-> 0]
    /\ err = [p \in calls |-> 0]
    /\ result = [p \in calls |-> NoResult]
    /\ applied = [p \in calls |-> {}]
    /\ written = [p \in calls |-> {}]

\* one call
Init == InitCalls({1}, Sources, NibbleFns, MaxCap, Fills)

\* two calls at once on one source, each with its own destination
ConcInit ==
    InitCalls({1, 2}, ConcSources, [variant : Variants, marker : {65535}],
              MaxConcCap, {238})

Call == \E p \in Calls : decode_inner_call(p)

Loop == \E p \in Calls : decode_inner_loop(p)

Match == \E p \in Calls : decode_inner_match(p)

Next == Call \/ Loop \/ Match

Spec == Init /\ [][Next]_vars

ConcSpec == ConcInit /\ [][Next]_vars

----------------------------------------------------------------------------
(* Vocabulary of the properties *)

\* the decoded length a source of even length asks for
Needed == Len(src) \div 2

OddLength == Len(src) % 2 = 1

\* the capacity of the destination call p was given
Cap(p) == Len(dst0[p])

Rejected(p, k) == ~Accepts(nib[p].variant, src[k])

AllAccepted(p) == \A k \in 1..Len(src) : ~Rejected(p, k)

HighPositions == {k \in 1..Len(src) : k % 2 = 1}
LowPositions == {k \in 1..Len(src) : k % 2 = 0}

\* the contract the engine is said to ask of a nibble-decode function: a
\* nibble in the low 8 bits, and bits above position 7 non-zero exactly for
\* a rejected character
MeetsContract(f) == f.marker % 256 \in 0..15 /\ f.marker \div 256 # 0

\* the low 8 bits of a nibble-decode value
Nibble(f, c) == decode_nibble(f, c) % 256

\* the positions of dst[p], counted from 1, that the returned slice covers
Covered(p) == (result[p].off + 1)..(result[p].off + result[p].len)

\* the slice a successful call returned
Returned(p) == SliceOf(dst[p], result[p].off, result[p].len)

----------------------------------------------------------------------------
(* C1: whenever the source has odd length or the destination holds fewer   *)
(* than len(src)/2 bytes, whatever the characters of the source are, the   *)
(* call fails with InvalidLength, no byte of the destination is modified   *)
(* and decode_nibble is applied to no source byte.                         *)
C1_InvalidLengthFirst ==
    \A p \in Calls :
        (OddLength \/ Cap(p) < Needed) =>
            /\ dst[p] = dst0[p]
            /\ written[p] = {}
            /\ applied[p] = {}
            /\ pc[p] = "ret" => result[p].tag = "InvalidLength"

\* a short destination and a rejected character: InvalidLength wins
C1_Witness ==
    \E p \in Calls :
        /\ pc[p] = "ret"
        /\ result[p].tag = "InvalidLength"
        /\ ~OddLength
        /\ Cap(p) < Needed
        /\ \E k \in 1..Len(src) : Rejected(p, k)

(* C2, as claimed: for a nibble-decode function that meets the contract,   *)
(* an even-length source and a destination that is large enough, the call  *)
(* fails with InvalidEncoding if and only if some character of the source  *)
(* is rejected, and succeeds otherwise.                                    *)
C2_AsClaimed ==
    \A p \in Calls :
        (MeetsContract(nib[p]) /\ pc[p] = "ret" /\ ~OddLength /\ Cap(p) >= Needed) =>
            /\ result[p].tag \in {"Ok", "InvalidEncoding"}
            /\ result[p].tag = "InvalidEncoding"
                   <=> \E k \in 1..Len(src) : Rejected(p, k)

(* C2, amended: under the same premises the call fails with                *)
(* InvalidEncoding if and only if some character in low-nibble position is *)
(* rejected or some character in high-nibble position has a nibble-decode  *)
(* value with a bit set among bits 8..11 (bits 12..15 of a high-position   *)
(* value are shifted out of the 16-bit word); it succeeds otherwise.       *)
C2_ErrorBitsThatSurvive ==
    \A p \in Calls :
        (MeetsContract(nib[p]) /\ pc[p] = "ret" /\ ~OddLength /\ Cap(p) >= Needed) =>
            /\ result[p].tag \in {"Ok", "InvalidEncoding"}
            /\ result[p].tag = "InvalidEncoding"
                   <=> \/ \E k \in LowPositions : Rejected(p, k)
                       \/ \E k \in HighPositions :
                              BitAnd(decode_nibble(nib[p], src[k]), 3840) # 0

\* a rejected first character followed by accepted ones is reported
C2_Witness ==
    \E p \in Calls :
        /\ MeetsContract(nib[p])
        /\ pc[p] = "ret"
        /\ Len(src) = 4
        /\ Rejected(p, 1)
        /\ \A k \in 2..4 : ~Rejected(p, k)
        /\ result[p].tag = "InvalidEncoding"

(* C3: when the call succeeds on a source of length 2n, byte i of the      *)
(* returned slice is 16 * nibble(src[2i]) + nibble(src[2i+1]): the         *)
(* character at the even position is the high nibble, in source order.     *)
C3_HighNibbleFirst ==
    \A p \in Calls :
        result[p].tag = "Ok" =>
            /\ result[p].len = Needed
            /\ \A i \in 1..Needed :
                   Returned(p)[i] = 16 * Nibble(nib[p], src[2 * i - 1])
                                      + Nibble(nib[p], src[2 * i])

\* "0aF0" decoded by mixed is 0x0A, 0xF0
C3_Witness ==
    \E p \in Calls :
        /\ result[p].tag = "Ok"
        /\ src = <<48, 97, 70, 48>>
        /\ Returned(p) = <<10, 240>>

(* C4: with an accepted source of length 2n, a destination of exactly n    *)
(* bytes succeeds, one of n-1 bytes fails with InvalidLength, and a larger *)
(* one succeeds and returns exactly n bytes, the first n of the buffer.    *)
C4_BufferSizing ==
    \A p \in Calls :
        (pc[p] = "ret" /\ ~OddLength /\ AllAccepted(p)) =>
            /\ Cap(p) = Needed => result[p].tag = "Ok"
            /\ Cap(p) = Needed - 1 => result[p].tag = "InvalidLength"
            /\ Cap(p) > Needed =>
                   /\ result[p].tag = "Ok"
                   /\ result[p].len = Needed
                   /\ Returned(p) = SubSeq(dst[p], 1, Needed)

\* an oversized buffer
C4_Witness ==
    \E p \in Calls :
        /\ pc[p] = "ret"
        /\ AllAccepted(p)
        /\ Needed = 2
        /\ Cap(p) = Needed + 1
        /\ result[p].tag = "Ok"
        /\ result[p].len = 2

(* C5, as claimed: the returned slice is the tail of the destination, the  *)
(* last n bytes of a buffer of capacity c (positions c-n .. c-1).          *)
C5_AsClaimed ==
    \A p \in Calls :
        result[p].tag = "Ok" =>
            /\ result[p].len = Needed
            /\ Covered(p) = (Cap(p) - Needed + 1)..Cap(p)

(* C5, amended: the returned slice is the head of the destination, the     *)
(* first n bytes of a buffer of capacity c >= n (positions 0 .. n-1).      *)
C5_ReturnsHead ==
    \A p \in Calls :
        result[p].tag = "Ok" =>
            /\ result[p].len = Needed
            /\ Needed <= Cap(p)
            /\ Covered(p) = 1..Needed

\* output shorter than the buffer, so head and tail differ
C5_Witness ==
    \E p \in Calls :
        /\ result[p].tag = "Ok"
        /\ Needed >= 1
        /\ Cap(p) >= Needed + 1
        /\ written[p] = 1..Needed

(* C6: round trip: the lower-case encoding of b decodes to b with the      *)
(* lower decoder, the upper-case encoding with the upper decoder, and      *)
(* either with the mixed decoder, given a destination of at least len(b).  *)
C6_RoundTrip ==
    \A p \in Calls :
        pc[p] = "ret" =>
            \A v \in {"lower", "upper"} : \A b \in RawInputs :
                (src = encode(v, b) /\ nib[p].variant \in {v, "mixed"}
                    /\ Cap(p) >= Len(b)) =>
                        /\ result[p].tag = "Ok"
                        /\ Returned(p) = b

\* "ABCD" decoded by mixed is 0xAB, 0xCD
C6_Witness ==
    \E p \in Calls :
        /\ pc[p] = "ret"
        /\ src = encode("upper", <<171, 205>>)
        /\ src = <<65, 66, 67, 68>>
        /\ nib[p].variant = "mixed"
        /\ result[p].tag = "Ok"
        /\ Returned(p) = <<171, 205>>

(* C7: no early exit: once the outcome of a call that passed the length    *)
(* check is decided, Ok or InvalidEncoding, decode_nibble has been applied *)
(* to every one of the 2n source characters and every one of the first n   *)
(* destination bytes has been written, wherever the rejected character is. *)
C7_NoEarlyExit ==
    \A p \in Calls :
        /\ result[p].tag \in {"Ok", "InvalidEncoding"} =>
               /\ it[p] = Needed
               /\ applied[p] = 1..Len(src)
               /\ written[p] = 1..Needed
        /\ (pc[p] = "loop" /\ it[p] < Needed) => result[p].tag = "none"

\* the first character is rejected and the second pair is still processed
C7_Witness ==
    \E p \in Calls :
        /\ result[p].tag = "InvalidEncoding"
        /\ Len(src) = 4
        /\ Rejected(p, 1)
        /\ applied[p] = 1..4
        /\ written[p] = {1, 2}

(* C8: decoded_len returns len/2 for every input of even length, the       *)
(* empty one included, and InvalidLength for every input of odd length;    *)
(* the result depends on the length alone.                                 *)
C8_DecodedLen ==
    \A p \in Calls :
        pc[p] # "call" =>
            dlen[p] = IF Len(src) % 2 = 0
                      THEN [tag |-> "Ok", val |-> Len(src) \div 2]
                      ELSE [tag |-> "InvalidLength", val |-> 0]

\* an even-length input holding a character no variant accepts
C8_Witness ==
    \E p \in Calls :
        /\ dlen[p] = [tag |-> "Ok", val |-> 2]
        /\ \E k \in 1..Len(src) : src[k] = 103

(* C9: calls that run at once on one shared source, each into its own      *)
(* destination, under every interleaving of their steps: at every step a   *)
(* call's destination and error accumulator are what the call run alone    *)
(* has after as many pairs, and its outcome is that of the call run alone. *)
C9_ConcurrentAsAlone ==
    \A p \in Calls :
        LET alone == decode_inner(src, dst0[p], nib[p])
            sofar == loop_after(src, dst0[p], nib[p], view[p], it[p])
        IN /\ pc[p] = "call" => dst[p] = dst0[p] /\ err[p] = 0
           /\ pc[p] = "loop" => dst[p] = sofar.dst /\ err[p] = sofar.err
           /\ pc[p] = "ret" => result[p] = alone.result /\ dst[p] = alone.dst

\* call 1 has returned Ok while call 2, which met a rejected character, is
\* between its two pairs
C9_Witness ==
    /\ Calls = {1, 2}
    /\ Len(src) = 4
    /\ pc[1] = "ret"
    /\ result[1].tag = "Ok"
    /\ pc[2] = "loop"
    /\ it[2] = 1
    /\ err[2] # 0

(* C10: no step modifies the source, and no step modifies a destination    *)
(* byte at a position n .. c-1, n = len(src)/2, whether the call succeeds  *)
(* or fails with InvalidEncoding.                                          *)
C10_Frame ==
    [][/\ src' = src
       /\ \A p \in Calls : \A k \in 1..Len(dst[p]) :
              k > Needed => dst'[p][k] = dst[p][k]]_vars

\* a failed decode into an oversized buffer, its tail as it was
C10_Witness ==
    \E p \in Calls :
        /\ result[p].tag = "InvalidEncoding"
        /\ Needed >= 1
        /\ Cap(p) > Needed
        /\ written[p] = 1..Needed
        /\ \A k \in (Needed + 1)..Cap(p) : dst[p][k] = dst0[p][k]

====
